---- MODULE Spec2Model ----
(***************************************************************************)
(* A model of src/worker.js: the chunked-transfer decoder                  *)
(* (DechunkingStream), the raw socket client (socketFetch), and the        *)
(* request handler (fetch) with the two upstream transports it chooses     *)
(* between and its playlist rewriter.                                      *)
(*                                                                         *)
(* Four specifications:                                                    *)
(*   SpecDecoder  the decoder fed one byte stream in arbitrary fragments   *)
(*   Spec         one inbound request taken through the handler            *)
(*   SpecSocket   socketFetch over the bytes of one upstream response      *)
(*   SpecRewrite  the rewriting of a playlist's lines                      *)
(*                                                                         *)
(* Bytes are their integer values.  A JavaScript number that may be NaN is *)
(* a sequence: <<>> is NaN, <<n>> is the number n.                         *)
(***************************************************************************)
EXTENDS Integers, Sequences, FiniteSets, TLC

VARIABLES
    \* ---- DechunkingStream (worker.js 8-60) and the stream around it
    buffer,      \* this.buffer: the pending bytes
    state,       \* this.state: "size", "data", "footer"
    chunkSize,   \* this.chunkSize: <<n>>, or <<>> for NaN
    out,         \* every array given to controller.enqueue, in order
    errored,     \* controller.error was called
    closed,      \* the source stream ended and the readable side closed
    stream,      \* the whole byte stream the upstream will send
    pos,         \* how many bytes of stream were given to transform
    kind,        \* what stream is: "wellformed", "junk", "badsize", "arb"
    payload,     \* the chunk payloads of a well-formed stream, in order
    \* ---- the handler, fetch (worker.js 143-319), for one inbound request
    pc,          \* where the handler is: "start", "socketFetch", "readHead",
                 \* "nativeFetch", "pipeline", "bufferPlaylist", "streaming",
                 \* "done"
    req,         \* the inbound request: method, url and referer parameters
    response,    \* the handler's local `response`: status, headers, ok, body
    returned,    \* the Response the handler returned, or NotReturned
    thrown,      \* the message of the error the catch block caught, or ""
    attempts,    \* calls of socketFetch or of the platform's fetch
    upReads,     \* reads of the upstream body issued so far
    buffered,    \* upstream body buffers held by the handler (manifestText)
    delivered,   \* upstream body buffers delivered to the client, in order
    clientBody,  \* the client-facing body stream: "none", "open", "closed",
                 \* "errored", "cancelled"
    socket       \* the raw socket and its reader: "none" (never opened),
                 \* "open", "drained" (a read gave done), "cancelled"
                 \* (reader.cancel was called), "failed" (the connection
                 \* was lost)

\* socketFetch, byte by byte.
VARIABLES
    upstream,        \* what the upstream sends before it closes: head, body,
                     \* complete (FALSE: it closes inside the head), wire
    sockPos,         \* bytes of upstream.wire the reader has handed out
    sPhase,          \* "head" (the loop at 94), "body" (socketFetch returned)
    leftover,        \* let leftover
    headLoaded,      \* let headLoaded
    sStatus,         \* let status
    sHeaders,        \* let responseHeaders: name |-> value, as code units
    attached,        \* the body was piped through a DechunkingStream
    bodyOut,         \* buffers bodyStream's controller was given, in order
    bodyClosed       \* controller.close() was called

\* The playlist rewriter.
VARIABLES
    url,             \* the url parameter of the request
    targetReferer,   \* the referer sent upstream
    manifestLines,   \* manifestText.split('\n')
    newLines         \* the lines rewritten so far

decoderVars == <<buffer, state, chunkSize, out, errored, closed,
                 stream, pos, kind, payload>>

handlerVars == <<pc, req, response, returned, thrown, attempts, upReads,
                 buffered, delivered, clientBody, socket>>

socketVars == <<upstream, sockPos, sPhase, leftover, headLoaded, sStatus,
                sHeaders, attached, bodyOut, bodyClosed>>

rewriteVars == <<url, targetReferer, manifestLines, newLines>>

vars == <<decoderVars, handlerVars, socketVars, rewriteVars>>

(***************************************************************************)
(* Bounds of the model.                                                    *)
(***************************************************************************)
MaxChunks == 2      \* chunks of a well-formed stream (before the last one)
MaxArb == 4         \* length of an arbitrary (possibly malformed) stream
MaxBufs == 2        \* buffers an upstream body yields before it ends

CR == 13
LF == 10
CRLF == <<CR, LF>>

\* The bytes chunk payloads are made of: "x" and "1".
PayloadBytes == {120, 49}
\* The bytes arbitrary streams are made of: CR, LF, "0", "1", "z", "x".
ArbBytes == {CR, LF, 48, 49, 122, 120}

(***************************************************************************)
(* JavaScript primitives the decoder uses.                                 *)
(***************************************************************************)
Min(a, b) == IF a < b THEN a ELSE b
Max(a, b) == IF a > b THEN a ELSE b

\* TypedArray.prototype.slice(start, end): negative indexes count from the
\* end, both are clamped to the length, an empty range gives the empty array.
RelIndex(i, len) == IF i < 0 THEN Max(len + i, 0) ELSE Min(i, len)

Slice(s, start, end) ==
    LET from == RelIndex(start, Len(s))
        to == RelIndex(end, Len(s))
    IN  IF from >= to THEN <<>> ELSE SubSeq(s, from + 1, to)

\* slice(start): to the end of the array.
SliceFrom(s, start) == Slice(s, start, Len(s))

\* TypedArray.prototype.indexOf(b): the first 0-based index of b, or -1.
IndexOf(s, b) ==
    IF \E i \in 1..Len(s) : s[i] = b
    THEN (CHOOSE i \in 1..Len(s) : s[i] = b /\ \A j \in 1..(i - 1) : s[j] # b) - 1
    ELSE -1

IsHexDigit(b) == b \in (48..57) \cup (97..102) \cup (65..70)

HexVal(b) == IF b \in 48..57 THEN b - 48
             ELSE IF b \in 97..102 THEN b - 87
             ELSE b - 55

\* StrWhiteSpaceChar, among the ASCII bytes: TAB, LF, VT, FF, CR, SP.
IsWhiteSpace(b) == b \in {9, 10, 11, 12, 13, 32}

RECURSIVE TrimLeft(_)
TrimLeft(s) == IF s # <<>> /\ IsWhiteSpace(Head(s)) THEN TrimLeft(Tail(s)) ELSE s

RECURSIVE HexPrefix(_)
\* The longest prefix of s made of hexadecimal digits.
HexPrefix(s) == IF s # <<>> /\ IsHexDigit(Head(s))
                THEN <<Head(s)>> \o HexPrefix(Tail(s))
                ELSE <<>>

RECURSIVE HexNumber(_)
HexNumber(ds) == IF ds = <<>> THEN 0
                 ELSE 16 * HexNumber(SubSeq(ds, 1, Len(ds) - 1)) + HexVal(ds[Len(ds)])

\* this.decoder.decode(bytes) gives one character a byte for the ASCII bytes
\* of the model.  parseInt(str, 16): leading white space is skipped, a
\* sign and a "0x"/"0X" prefix are accepted, then the longest run of
\* hexadecimal digits is the value; text after it is ignored.  No digit: NaN.
ParseInt16(s) ==
    LET t == TrimLeft(s)
        neg == t # <<>> /\ Head(t) = 45
        u == IF t # <<>> /\ Head(t) \in {43, 45} THEN Tail(t) ELSE t
        v == IF Len(u) >= 2 /\ u[1] = 48 /\ u[2] \in {120, 88}
             THEN SubSeq(u, 3, Len(u)) ELSE u
        ds == HexPrefix(v)
    IN  IF ds = <<>> THEN <<>>
        ELSE <<(IF neg THEN -1 ELSE 1) * HexNumber(ds)>>

IsNaN(n) == n = <<>>

(***************************************************************************)
(* DechunkingStream.  A decoder is the record                              *)
(*   [buffer, state, chunkSize, out, errored].                             *)
(***************************************************************************)
NewDecoder == [buffer |-> <<>>, state |-> "size", chunkSize |-> <<0>>,
               out |-> <<>>, errored |-> FALSE]

\* merge(a, b)
Merge(a, b) == a \o b

\* SizeStep with  parseInt(sizeStr, 16) || 0 : a size line that is no
\* number counts as the last chunk and no error is signalled.
SizeStepNaNAsZero(d, lineEnd) ==
    LET sizeStr == Slice(d.buffer, 0, lineEnd)
        parsed == ParseInt16(sizeStr)
        size == IF IsNaN(parsed) THEN <<0>> ELSE parsed
        rest == SliceFrom(d.buffer, lineEnd + 2)
    IN  [d EXCEPT !.chunkSize = size, !.buffer = rest,
                  !.state = IF size[1] = 0 THEN "footer" ELSE "data"]

\* The 'size' branch of the loop, taken with a CR at lineEnd.  The result
\* says whether transform returns there (the error) or loops on.
SizeStep(d, lineEnd) ==
    LET sizeStr == Slice(d.buffer, 0, lineEnd)
        size == ParseInt16(sizeStr)
        rest == SliceFrom(d.buffer, lineEnd + 2)
    IN  IF IsNaN(size)
        THEN [d EXCEPT !.chunkSize = size, !.buffer = rest, !.errored = TRUE]
        ELSE [d EXCEPT !.chunkSize = size, !.buffer = rest,
                       !.state = IF size[1] = 0 THEN "footer" ELSE "data"]

\* The 'data' branch waits while this holds.
DataWaits(d) == Len(d.buffer) < d.chunkSize[1]

\* The 'data' branch once it does not wait.
DataStep(d) ==
    [d EXCEPT !.out = Append(d.out, Slice(d.buffer, 0, d.chunkSize[1])),
              !.buffer = SliceFrom(d.buffer, d.chunkSize[1] + 2),
              !.state = "size"]

\* FooterStep of a decoder that starts over after the final empty line.
FooterStepStartsOver(d, lineEnd) ==
    [d EXCEPT !.buffer = SliceFrom(d.buffer, lineEnd + 2),
              !.state = IF lineEnd = 0 THEN "size" ELSE "footer"]

\* The 'footer' branch, taken with a CR at lineEnd.
FooterStep(d, lineEnd) ==
    [d EXCEPT !.buffer = IF lineEnd = 0 THEN <<>>
                         ELSE SliceFrom(d.buffer, lineEnd + 2)]

RECURSIVE Loop(_)
\* while (this.buffer.length > 0) { ... }
Loop(d) ==
    IF Len(d.buffer) = 0 THEN d
    ELSE IF d.state = "size" THEN
        LET lineEnd == IndexOf(d.buffer, CR)
        IN  IF lineEnd = -1 THEN d
            ELSE LET e == SizeStep(d, lineEnd)
                 IN  IF e.errored THEN e ELSE Loop(e)
    ELSE IF d.state = "data" THEN
        IF DataWaits(d) THEN d ELSE Loop(DataStep(d))
    ELSE
        LET lineEnd == IndexOf(d.buffer, CR)
        IN  IF lineEnd = -1 THEN d ELSE Loop(FooterStep(d, lineEnd))

\* transform(chunk, controller)
TransformCall(d, chunk) == Loop([d EXCEPT !.buffer = Merge(d.buffer, chunk)])

(***************************************************************************)
(* The byte streams the decoder is given.                                  *)
(***************************************************************************)
RECURSIVE SeqsUpTo(_, _)
\* All sequences over S of length 0..n.
SeqsUpTo(S, n) ==
    IF n = 0 THEN {<<>>}
    ELSE LET shorter == SeqsUpTo(S, n - 1)
         IN  shorter \cup {Append(s, x) : s \in shorter, x \in S}

\* The lengths of a chunk's payload.
PayloadLens == {1, 2}
\* A chunk's payload: the same byte, once or twice.
Payloads == {[i \in 1..n |-> b] : n \in PayloadLens, b \in PayloadBytes}
ChunkLists == SeqsUpTo(Payloads, MaxChunks)

HexDigit(n) == IF n < 10 THEN 48 + n ELSE 87 + n

RECURSIVE HexText(_)
\* The size line's text: lower-case hexadecimal, no leading zero.
HexText(n) == IF n < 16 THEN <<HexDigit(n)>>
              ELSE Append(HexText(n \div 16), HexDigit(n % 16))

RECURSIVE EncodeChunks(_)
EncodeChunks(cs) ==
    IF cs = <<>> THEN <<>>
    ELSE HexText(Len(Head(cs))) \o CRLF \o Head(cs) \o CRLF \o EncodeChunks(Tail(cs))

RECURSIVE Concat(_)
Concat(ss) == IF ss = <<>> THEN <<>> ELSE Head(ss) \o Concat(Tail(ss))

\* The last chunk, "0" CRLF.
LastChunk == <<48>> \o CRLF
\* One chunk, "1" CRLF "x" CRLF.
OneChunk == <<49>> \o CRLF \o <<120>> \o CRLF
\* What ends a well-formed body: the last chunk, no trailer line or one
\* ("z" CRLF), and the empty line.
GoodTails == {LastChunk \o CRLF, LastChunk \o <<122>> \o CRLF \o CRLF}
\* A finished body followed by chunk-like data.
JunkTails == {LastChunk \o CRLF \o OneChunk}
\* A size line that is no number ("zz", or empty) followed by a chunk.
BadSizeTails == {<<122, 122>> \o CRLF \o OneChunk, CRLF \o OneChunk}

WellFormedSources ==
    {[stream |-> EncodeChunks(cs) \o t, kind |-> "wellformed",
      payload |-> Concat(cs)] : cs \in ChunkLists, t \in GoodTails}

JunkSources ==
    {[stream |-> EncodeChunks(cs) \o t, kind |-> "junk",
      payload |-> Concat(cs)] : cs \in ChunkLists, t \in JunkTails}

BadSizeSources ==
    {[stream |-> EncodeChunks(cs) \o t, kind |-> "badsize",
      payload |-> Concat(cs)] : cs \in ChunkLists, t \in BadSizeTails}

ArbSources ==
    {[stream |-> s, kind |-> "arb", payload |-> <<>>] :
        s \in SeqsUpTo(ArbBytes, MaxArb)}

Sources == WellFormedSources \cup JunkSources \cup BadSizeSources \cup ArbSources

(***************************************************************************)
(* The handler's data.  Headers is a function from lower-cased header      *)
(* names to values: the Headers class matches names without regard to case.*)
(***************************************************************************)
H_ACAO == "access-control-allow-origin"
H_VERSION == "x-proxy-version"
H_CSP == "content-security-policy"
H_XFO == "x-frame-options"
H_CT == "content-type"
H_CR == "content-range"
H_TE == "transfer-encoding"

EmptyHeaders == [n \in {} |-> ""]
HSet(h, n, v) == [k \in DOMAIN h \cup {n} |-> IF k = n THEN v ELSE h[k]]
HDelete(h, n) == [k \in DOMAIN h \ {n} |-> h[k]]
HGet(h, n) == IF n \in DOMAIN h THEN h[n] ELSE ""
HHas(h, n) == n \in DOMAIN h

\* The inbound requests.  A url parameter is "missing" (get gives null),
\* "empty", "malformed" (no absolute URL), or "valid"; a valid one has a
\* host, may hold the text ":2228", and may hold the text ".m3u8" as its
\* suffix or inside (before a query or a further path segment).
Methods == {"GET", "OPTIONS"}
Hosts == {"cdn.example", "haildrop.example", "cdn.dotstream.buzz"}
M3u8Places == {"none", "suffix", "inside"}
ValidUrls == [kind : {"valid"}, host : Hosts, has2228 : BOOLEAN, m3u8 : M3u8Places]
OtherUrls == [kind : {"missing", "empty", "malformed"}, host : {""},
              has2228 : {FALSE}, m3u8 : {"none"}]
Referers == {"missing", "valid", "malformed"}
Requests == [method : Methods, url : ValidUrls \cup OtherUrls, referer : Referers]

\* UrlIsFalsy as  url === null : the empty string passes.
UrlIsNull(u) == u.kind = "missing"

\* if (!url): null and the empty string.
UrlIsFalsy(u) == u.kind \in {"missing", "empty"}

\* new URL(url) gives a URL, or throws.
UrlParses(u) == u.kind = "valid"

\* new URL(targetReferer) at 192: targetReferer is the referer parameter,
\* or the default when it is missing or empty, or the megaplay referer for
\* the dotstream host whatever the parameter is.
RefererParses(r) == r.url.host = "cdn.dotstream.buzz" \/ r.referer # "malformed"

\* hostname.includes(<name>) for the names of lines 221-229.
HostIsListed(host) == host \in {"haildrop.example"}

\* needsSocketFetch
NeedsSocketFetch(u) == u.has2228 \/ HostIsListed(u.host)

\* url.includes('.m3u8')
UrlIncludesM3u8(u) == u.m3u8 # "none"

\* contentType.includes('mpegurl')
TypeIncludesMpegurl(ct) == ct \in {"application/vnd.apple.mpegurl"}

\* What the upstream can answer.
SocketStatuses == {100, 200, 204, 206, 304, 404, 600}
NativeStatuses == {200, 204, 206, 304, 404}
ContentTypes == {"video/mp2t", "application/vnd.apple.mpegurl"}

\* Values of a Transfer-Encoding line as 107 keeps them: trimmed, their case
\* as the upstream wrote it.
TransferEncodings == {"chunked", "Chunked"}

HeaderMaps(names) ==
    {[n \in D |-> IF n = H_CT THEN ct
                  ELSE IF n = H_CSP THEN "default-src 'none'"
                  ELSE IF n = H_XFO THEN "DENY"
                  ELSE IF n = H_CR THEN "bytes 0-1/2"
                  ELSE te] :
        D \in SUBSET names, ct \in ContentTypes, te \in TransferEncodings}

SocketHeaderMaps == HeaderMaps({H_CSP, H_XFO, H_CT, H_CR, H_TE})
NativeHeaderMaps == HeaderMaps({H_CSP, H_XFO, H_CT, H_CR})

\* The Response constructor (Fetch standard, "initialize a response"): a
\* status outside 200..599 is a RangeError, a body that is not null with a
\* null body status is a TypeError.  "" when it does not throw.
NullBodyStatuses == {101, 204, 205, 304}

ResponseThrows(body, status) ==
    IF status < 200 \/ status > 599
    THEN "Responses may only be constructed with status codes in the range 200 to 599, inclusive."
    ELSE IF body.kind # "null" /\ status \in NullBodyStatuses
    THEN "Response with null body status cannot have body"
    ELSE ""

NullBody == [kind |-> "null", text |-> ""]
TextBody(t) == [kind |-> "text", text |-> t]
\* The rewritten playlist text, and the upstream body stream handed on.
PlaylistBody == [kind |-> "playlist", text |-> ""]
StreamBody == [kind |-> "stream", text |-> ""]

NotReturned == [from |-> "none", status |-> 0, headers |-> EmptyHeaders,
                body |-> [kind |-> "none", text |-> ""]]
NoResponse == [status |-> 0, headers |-> EmptyHeaders, ok |-> FALSE, body |-> "none"]

\* The responses of lines 148-157, 164-167 and 313-316.
OptionsResponse ==
    [from |-> "options", status |-> 204,
     headers |-> [n \in {H_ACAO, "access-control-allow-methods",
                         "access-control-allow-headers",
                         "access-control-expose-headers",
                         "access-control-max-age"} |->
                    IF n = H_ACAO THEN "*"
                    ELSE IF n = "access-control-allow-methods" THEN "GET, OPTIONS"
                    ELSE IF n = "access-control-allow-headers"
                        THEN "Range, Content-Type, Accept, Accept-Encoding"
                    ELSE IF n = "access-control-expose-headers"
                        THEN "Content-Length, Content-Range, Accept-Ranges, Cache-Control"
                    ELSE "86400"],
     body |-> NullBody]

MissingUrlResponse ==
    [from |-> "missingUrl", status |-> 400,
     headers |-> HSet(EmptyHeaders, H_ACAO, "*"),
     body |-> TextBody("URL parameter is required")]

\* JSON.stringify({ error: message })
ErrorJson(msg) == "{\"error\":\"" \o msg \o "\"}"

\* CatchResponse without the CORS header.
CatchResponseNoCors(msg) ==
    [from |-> "catch", status |-> 500,
     headers |-> HSet(EmptyHeaders, H_CT, "application/json"),
     body |-> TextBody(ErrorJson(msg))]

CatchResponse(msg) ==
    [from |-> "catch", status |-> 500,
     headers |-> HSet(HSet(EmptyHeaders, H_CT, "application/json"), H_ACAO, "*"),
     body |-> TextBody(ErrorJson(msg))]

\* Lines 253-255: the upstream headers, with the two headers set.
ProxyHeaders(h) == HSet(HSet(h, H_ACAO, "*"), H_VERSION, "1.2.1-no-origin")

\* Lines 264-265.
StripHeaders(h) == HDelete(HDelete(h, H_CSP), H_XFO)

\* sRes.status >= 200 && sRes.status < 300 || sRes.status === 206
SocketOk(status) == (status >= 200 /\ status < 300) \/ status = 206
\* res.ok
NativeOk(status) == status \in 200..299

\* !response.ok && response.status !== 206
IsUpstreamError(r) == ~r.ok /\ r.status # 206

\* contentType.includes('mpegurl') || url.includes('.m3u8')
IsPlaylist(h, u) == TypeIncludesMpegurl(HGet(h, H_CT)) \/ UrlIncludesM3u8(u)

UpstreamErrorText(status) == "Upstream error " \o ToString(status)

(***************************************************************************)
(* Initial states.                                                         *)
(***************************************************************************)
DecoderInit(src) ==
    /\ buffer = NewDecoder.buffer
    /\ state = NewDecoder.state
    /\ chunkSize = NewDecoder.chunkSize
    /\ out = NewDecoder.out
    /\ errored = NewDecoder.errored
    /\ closed = FALSE
    /\ pos = 0
    /\ stream = src.stream
    /\ kind = src.kind
    /\ payload = src.payload

HandlerInit(r) ==
    /\ pc = "start"
    /\ req = r
    /\ response = NoResponse
    /\ returned = NotReturned
    /\ thrown = ""
    /\ attempts = 0
    /\ upReads = 0
    /\ buffered = <<>>
    /\ delivered = <<>>
    /\ clientBody = "none"
    /\ socket = "none"

\* Lines 88-91, before the first read.
DefaultHeadBadGateway == [status |-> 502, headers |-> EmptyHeaders]

DefaultHead == [status |-> 200, headers |-> EmptyHeaders]

SocketInit(up) ==
    /\ upstream = up
    /\ sockPos = 0
    /\ sPhase = "head"
    /\ leftover = <<>>
    /\ headLoaded = FALSE
    /\ sStatus = DefaultHead.status
    /\ sHeaders = DefaultHead.headers
    /\ attached = FALSE
    /\ bodyOut = <<>>
    /\ bodyClosed = FALSE

NoUpstream == [head |-> <<>>, body |-> <<>>, complete |-> FALSE, wire |-> <<>>]

RewriteInit ==
    /\ url = <<>>
    /\ targetReferer = <<>>
    /\ manifestLines = <<>>
    /\ newLines = <<>>

NoSource == [stream |-> <<>>, kind |-> "arb", payload |-> <<>>]
NoRequest == [method |-> "GET",
              url |-> [kind |-> "missing", host |-> "", has2228 |-> FALSE,
                       m3u8 |-> "none"],
              referer |-> "missing"]

(***************************************************************************)
(* SpecDecoder: the decoder inside  new TransformStream(new                *)
(* DechunkingStream())  is given the stream in fragments.                  *)
(***************************************************************************)
DecoderOf == [buffer |-> buffer, state |-> state, chunkSize |-> chunkSize,
              out |-> out, errored |-> errored]

InitDecoder ==
    /\ \E src \in Sources : DecoderInit(src)
    /\ HandlerInit(NoRequest)
    /\ SocketInit(NoUpstream)
    /\ RewriteInit

\* The transform stream calls transform for one written buffer.  A stream
\* whose controller.error was called is errored: the writes that follow are
\* rejected and transform is not called again.
Transform ==
    /\ ~errored /\ ~closed
    /\ \E n \in 1..(Len(stream) - pos) :
        \E d \in {TransformCall(DecoderOf, SubSeq(stream, pos + 1, pos + n))} :
            /\ buffer' = d.buffer
            /\ state' = d.state
            /\ chunkSize' = d.chunkSize
            /\ out' = d.out
            /\ errored' = d.errored
            /\ pos' = pos + n
    /\ UNCHANGED <<closed, stream, kind, payload>>
    /\ UNCHANGED <<handlerVars, socketVars, rewriteVars>>

\* The source stream ends; DechunkingStream has no flush, so the readable
\* side just closes.
Close ==
    /\ ~errored /\ ~closed
    /\ pos = Len(stream)
    /\ closed' = TRUE
    /\ UNCHANGED <<buffer, state, chunkSize, out, errored, stream, pos,
                   kind, payload>>
    /\ UNCHANGED <<handlerVars, socketVars, rewriteVars>>

NextDecoder == Transform \/ Close

SpecDecoder == InitDecoder /\ [][NextDecoder]_vars

(***************************************************************************)
(* Spec: one inbound request.  The handler is cut at its awaits; what the  *)
(* upstream does (fail, answer, end the body) is chosen at each of them.   *)
(***************************************************************************)
Init ==
    /\ DecoderInit(NoSource)
    /\ \E r \in Requests : HandlerInit(r)
    /\ SocketInit(NoUpstream)
    /\ RewriteInit

\* Catch of a handler that answers a failed raw-socket attempt by trying the
\* platform's fetch.
CatchRetry(msg) ==
    IF pc \in {"socketFetch", "readHead"}
    THEN /\ pc' = "nativeFetch"
         /\ UNCHANGED <<returned, thrown, clientBody>>
    ELSE /\ returned' = CatchResponse(msg)
         /\ thrown' = msg
         /\ pc' = "done"
         /\ clientBody' = clientBody

\* The catch block, 312-317.
Catch(msg) ==
    /\ returned' = CatchResponse(msg)
    /\ thrown' = msg
    /\ pc' = "done"
    /\ clientBody' = clientBody

\* return new Response(body, { status, headers }) inside the try block: the
\* constructor's error, if any, is caught at 312.
Return(from, body, status, headers) ==
    IF ResponseThrows(body, status) # ""
    THEN Catch(ResponseThrows(body, status))
    ELSE /\ returned' = [from |-> from, status |-> status, headers |-> headers,
                         body |-> body]
         /\ thrown' = thrown
         /\ pc' = IF body.kind = "stream" THEN "streaming" ELSE "done"
         /\ clientBody' = IF body.kind = "stream" THEN "open" ELSE clientBody

\* fetch, 144-229: up to the choice of the transport.
HandlerStart ==
    /\ pc = "start"
    /\ IF req.method = "OPTIONS"
       THEN /\ returned' = OptionsResponse
            /\ pc' = "done"
            /\ UNCHANGED <<thrown, clientBody>>
       ELSE IF UrlIsFalsy(req.url)
       THEN /\ returned' = MissingUrlResponse
            /\ pc' = "done"
            /\ UNCHANGED <<thrown, clientBody>>
       ELSE IF ~UrlParses(req.url) \/ ~RefererParses(req)
       THEN Catch("Invalid URL")
       ELSE /\ pc' = IF NeedsSocketFetch(req.url) THEN "socketFetch" ELSE "nativeFetch"
            /\ UNCHANGED <<returned, thrown, clientBody>>
    /\ UNCHANGED <<req, response, attempts, upReads, buffered, delivered,
                   socket>>
    /\ UNCHANGED <<decoderVars, socketVars, rewriteVars>>

\* socketFetch, 65-86: the socket is opened and the request written, or
\* either fails.
SocketFetchOpen ==
    /\ pc = "socketFetch"
    /\ attempts' = attempts + 1
    /\ \/ /\ pc' = "readHead"
          /\ socket' = "open"
          /\ UNCHANGED <<returned, thrown, clientBody>>
       \/ /\ Catch("Network connection lost.")
          /\ socket' = "failed"
    /\ UNCHANGED <<req, response, upReads, buffered, delivered>>
    /\ UNCHANGED <<decoderVars, socketVars, rewriteVars>>

\* What socketFetch returns (131-140) for a parsed status and header map,
\* as the handler keeps it (233-238).
SocketResponse(status, h) ==
    LET chunked == HGet(h, H_TE) = "chunked"
    IN  [status |-> status,
         headers |-> IF chunked THEN HDelete(h, H_TE) ELSE h,
         ok |-> SocketOk(status),
         body |-> IF chunked THEN "dechunked" ELSE "raw"]

\* socketFetch, 88-140: a read fails; or the connection closes before the
\* head's end and the defaults stand; or the head is parsed.
SocketFetchHead ==
    /\ pc = "readHead"
    /\ \/ /\ Catch("Network connection lost.")
          /\ socket' = "failed"
          /\ UNCHANGED response
       \/ /\ response' = SocketResponse(200, EmptyHeaders)
          /\ pc' = "pipeline"
          /\ socket' = "drained"
          /\ UNCHANGED <<returned, thrown, clientBody>>
       \/ /\ \E st \in SocketStatuses, h \in SocketHeaderMaps :
                response' = SocketResponse(st, h)
          /\ pc' = "pipeline"
          /\ UNCHANGED <<returned, thrown, clientBody, socket>>
    /\ UNCHANGED <<req, attempts, upReads, buffered, delivered>>
    /\ UNCHANGED <<decoderVars, socketVars, rewriteVars>>

\* fetch(url, ...), 240-250: it rejects, or gives a response whose body is
\* null for a null body status.
NativeFetch ==
    /\ pc = "nativeFetch"
    /\ attempts' = attempts + 1
    /\ \/ /\ Catch("Network connection lost.")
          /\ UNCHANGED response
       \/ /\ \E st \in NativeStatuses, h \in NativeHeaderMaps :
                response' = [status |-> st, headers |-> h, ok |-> NativeOk(st),
                             body |-> IF st \in NullBodyStatuses THEN "null"
                                      ELSE "native"]
          /\ pc' = "pipeline"
          /\ UNCHANGED <<returned, thrown, clientBody>>
    /\ UNCHANGED <<req, upReads, buffered, delivered, socket>>
    /\ UNCHANGED <<decoderVars, socketVars, rewriteVars>>

\* 253-310: the response pipeline, up to the playlist's await or a return.
Pipeline ==
    /\ pc = "pipeline"
    /\ LET responseHeaders == ProxyHeaders(response.headers)
       IN  IF IsUpstreamError(response)
           THEN Return("upstreamError", TextBody(UpstreamErrorText(response.status)),
                       response.status, responseHeaders)
           ELSE IF IsPlaylist(StripHeaders(responseHeaders), req.url)
           THEN /\ pc' = "bufferPlaylist"
                /\ UNCHANGED <<returned, thrown, clientBody>>
           ELSE Return("stream",
                       IF response.body = "null" THEN NullBody ELSE StreamBody,
                       response.status, StripHeaders(responseHeaders))
    /\ UNCHANGED <<req, response, attempts, upReads, buffered, delivered,
                   socket>>
    /\ UNCHANGED <<decoderVars, socketVars, rewriteVars>>

\* How a read of the upstream body can fail, as the state the socket is left
\* in: the connection is lost under reader.read() (119); or, with the decoder
\* attached, transform signals controller.error (28-31) and the pipe cancels
\* its source, whose cancel() is 126-128.
ReadFailures(body) ==
    IF body = "dechunked" THEN {"failed", "cancelled"}
    ELSE IF body = "raw" THEN {"failed"}
    ELSE {"none"}

FailureMessage(sock) ==
    IF sock = "cancelled" THEN "Invalid chunk size" ELSE "Network connection lost."

\* A read of the upstream body that gives done: true (120-121).
AfterDone(sock) == IF sock = "none" THEN "none" ELSE "drained"

\* 272-303: await new Response(response.body).text() reads the body to its
\* end, one buffer a read; a read that fails rejects it; at the end the
\* text is rewritten and returned.
PlaylistRead ==
    /\ pc = "bufferPlaylist"
    /\ \/ /\ response.body # "null" /\ upReads < MaxBufs
          /\ socket \in {"none", "open"}
          /\ upReads' = upReads + 1
          /\ buffered' = Append(buffered, upReads + 1)
          /\ UNCHANGED <<pc, returned, thrown, clientBody, socket>>
       \/ /\ response.body # "null"
          /\ socket \in {"none", "open"}
          /\ upReads' = upReads + 1
          /\ \E s \in ReadFailures(response.body) :
                /\ socket' = s
                /\ Catch(FailureMessage(s))
          /\ UNCHANGED buffered
       \/ /\ upReads' = IF response.body = "null" THEN upReads ELSE upReads + 1
          /\ socket' = AfterDone(socket)
          /\ Return("playlist", PlaylistBody, response.status,
                    StripHeaders(ProxyHeaders(response.headers)))
          /\ UNCHANGED buffered
    /\ UNCHANGED <<req, response, attempts, delivered>>
    /\ UNCHANGED <<decoderVars, socketVars, rewriteVars>>

\* The Response returned at 307-310 after its body failed: the handler has
\* returned, its catch block (312) is out of reach, the Response stands.
AfterBodyFailureIs500(r, msg) == CatchResponse(msg)

AfterBodyFailure(r, msg) == r

\* 307-310 and 118-125: the client pulls the streamed body; the pull reads
\* the upstream once and hands on the buffer, or the end, or the error.
ClientPull ==
    /\ pc = "streaming" /\ clientBody = "open"
    /\ upReads' = upReads + 1
    /\ \/ /\ upReads < MaxBufs
          /\ socket \in {"none", "open"}
          /\ delivered' = Append(delivered, upReads + 1)
          /\ UNCHANGED <<pc, clientBody, socket, returned>>
       \/ /\ clientBody' = "closed"
          /\ pc' = "done"
          /\ socket' = AfterDone(socket)
          /\ UNCHANGED <<delivered, returned>>
       \/ /\ socket \in {"none", "open"}
          /\ clientBody' = "errored"
          /\ pc' = "done"
          /\ \E s \in ReadFailures(response.body) :
                /\ socket' = s
                /\ returned' = AfterBodyFailure(returned, FailureMessage(s))
          /\ UNCHANGED delivered
    /\ UNCHANGED <<req, response, thrown, attempts, buffered>>
    /\ UNCHANGED <<decoderVars, socketVars, rewriteVars>>

\* cancel() of the body stream, 126-128, reached from the client-facing
\* stream directly or through the decoder's pipe (133).
BodyCancelKeepsReader(body, sock) == sock

BodyCancel(body, sock) ==
    IF body \in {"raw", "dechunked"} THEN "cancelled" ELSE sock

\* The consumer cancels the client-facing body stream.
ClientCancel ==
    /\ pc = "streaming" /\ clientBody = "open"
    /\ clientBody' = "cancelled"
    /\ pc' = "done"
    /\ socket' = BodyCancel(response.body, socket)
    /\ UNCHANGED <<req, response, returned, thrown, attempts, upReads,
                   buffered, delivered>>
    /\ UNCHANGED <<decoderVars, socketVars, rewriteVars>>

Next ==
    \/ HandlerStart
    \/ SocketFetchOpen
    \/ SocketFetchHead
    \/ NativeFetch
    \/ Pipeline
    \/ PlaylistRead
    \/ ClientPull
    \/ ClientCancel

Spec == Init /\ [][Next]_vars

(***************************************************************************)
(* SpecSocket: socketFetch, 88-140, over the bytes of one upstream         *)
(* response, given to the reader in reads of any sizes.                    *)
(***************************************************************************)

\* new TextDecoder().decode(bytes, { stream: true }), as UTF-16 code units:
\* an ASCII byte is itself; a lead byte with its continuation bytes is the
\* code point; a byte that cannot start or continue a sequence is U+FFFD and
\* decoding goes on at the byte that broke the sequence; a sequence cut by
\* the end of the bytes is held back.  (The upstreams of the model hold no
\* 4-byte sequence.)
REPLACEMENT == 65533

IsContinuation(b) == b \in 128..191

RECURSIVE Utf8Decode(_)
Utf8Decode(bs) ==
    IF bs = <<>> THEN <<>>
    ELSE LET b == Head(bs)
         IN  IF b < 128 THEN <<b>> \o Utf8Decode(Tail(bs))
             ELSE IF b \in 194..223
             THEN IF Len(bs) = 1 THEN <<>>
                  ELSE IF IsContinuation(bs[2])
                  THEN <<(b - 192) * 64 + (bs[2] - 128)>>
                           \o Utf8Decode(SubSeq(bs, 3, Len(bs)))
                  ELSE <<REPLACEMENT>> \o Utf8Decode(Tail(bs))
             ELSE IF b \in 224..239
             THEN IF Len(bs) = 1 THEN <<>>
                  ELSE IF ~IsContinuation(bs[2])
                  THEN <<REPLACEMENT>> \o Utf8Decode(Tail(bs))
                  ELSE IF Len(bs) = 2 THEN <<>>
                  ELSE IF ~IsContinuation(bs[3])
                  THEN <<REPLACEMENT>> \o Utf8Decode(SubSeq(bs, 3, Len(bs)))
                  ELSE <<(b - 224) * 4096 + (bs[2] - 128) * 64 + (bs[3] - 128)>>
                           \o Utf8Decode(SubSeq(bs, 4, Len(bs)))
             ELSE <<REPLACEMENT>> \o Utf8Decode(Tail(bs))

\* new TextEncoder().encode(text)
RECURSIVE Utf8Encode(_)
Utf8Encode(cs) ==
    IF cs = <<>> THEN <<>>
    ELSE LET c == Head(cs)
         IN  (IF c < 128 THEN <<c>>
              ELSE IF c < 2048 THEN <<192 + (c \div 64), 128 + (c % 64)>>
              ELSE <<224 + (c \div 4096), 128 + ((c \div 64) % 64),
                     128 + (c % 64)>>)
             \o Utf8Encode(Tail(cs))

\* String.prototype.indexOf(pattern): the first 0-based index, or -1.
IndexOfSeq(s, pat) ==
    LET at(i) == SubSeq(s, i, i + Len(pat) - 1) = pat
        places == {i \in 1..(Len(s) - Len(pat) + 1) : at(i)}
    IN  IF places = {} THEN -1
        ELSE (CHOOSE i \in places : \A j \in places : i <= j) - 1

\* String.prototype.substring(start, end) and substring(start), for indexes
\* within the string.
Substring(s, start, end) == SubSeq(s, start + 1, end)
SubstringFrom(s, start) == SubSeq(s, start + 1, Len(s))

\* String.prototype.split(separator)
RECURSIVE Split(_, _)
Split(s, sep) ==
    LET i == IndexOfSeq(s, sep)
    IN  IF i = -1 THEN <<s>>
        ELSE <<Substring(s, 0, i)>> \o Split(SubstringFrom(s, i + Len(sep)), sep)

RECURSIVE TrimRight(_)
TrimRight(s) == IF s # <<>> /\ IsWhiteSpace(s[Len(s)])
                THEN TrimRight(SubSeq(s, 1, Len(s) - 1)) ELSE s

\* String.prototype.trim()
Trim(s) == TrimRight(TrimLeft(s))

\* String.prototype.toLowerCase(), for the letters of the model's heads.
ToLowerCase(s) == [i \in 1..Len(s) |-> IF s[i] \in 65..90 THEN s[i] + 32 ELSE s[i]]

RECURSIVE DecPrefix(_)
DecPrefix(s) == IF s # <<>> /\ Head(s) \in 48..57
                THEN <<Head(s)>> \o DecPrefix(Tail(s))
                ELSE <<>>

RECURSIVE DecNumber(_)
DecNumber(ds) == IF ds = <<>> THEN 0
                 ELSE 10 * DecNumber(SubSeq(ds, 1, Len(ds) - 1)) + (ds[Len(ds)] - 48)

\* parseInt(str) without a radix: as ParseInt16 after "0x"/"0X", decimal
\* otherwise.
ParseInt(s) ==
    LET t == TrimLeft(s)
        neg == t # <<>> /\ Head(t) = 45
        u == IF t # <<>> /\ Head(t) \in {43, 45} THEN Tail(t) ELSE t
        hex == Len(u) >= 2 /\ u[1] = 48 /\ u[2] \in {120, 88}
        ds == IF hex THEN HexPrefix(SubSeq(u, 3, Len(u))) ELSE DecPrefix(u)
    IN  IF ds = <<>> THEN <<>>
        ELSE <<(IF neg THEN -1 ELSE 1) *
                 (IF hex THEN HexNumber(ds) ELSE DecNumber(ds))>>

SP == 32
COLON == 58
CRLFCRLF == CRLF \o CRLF

\* "HTTP/1.1 404 Not Found" CRLF "Transfer-Encoding: chunked"
HeadChunked ==
    <<72, 84, 84, 80, 47, 49, 46, 49, 32, 52, 48, 52, 32, 78, 111,
      116, 32, 70, 111, 117, 110, 100, 13, 10, 84, 114, 97, 110, 115,
      102, 101, 114, 45, 69, 110, 99, 111, 100, 105, 110, 103, 58,
      32, 99, 104, 117, 110, 107, 101, 100>>

\* "HTTP/1.1 200 OK" CRLF "Server: caf" 0xE9  (e acute in ISO-8859-1)
HeadLatin1 ==
    <<72, 84, 84, 80, 47, 49, 46, 49, 32, 50, 48, 48, 32, 79, 75, 13,
      10, 83, 101, 114, 118, 101, 114, 58, 32, 99, 97, 102, 233>>

\* "HTTP/1.1 200 OK" CRLF "Server: caf" 0xC3 0xA9  (e acute in UTF-8)
HeadUtf8 ==
    <<72, 84, 84, 80, 47, 49, 46, 49, 32, 50, 48, 48, 32, 79, 75, 13,
      10, 83, 101, 114, 118, 101, 114, 58, 32, 99, 97, 102, 195, 169>>

\* "HTTP/1.1": a status line without a status
HeadBare ==
    <<72, 84, 84, 80, 47, 49, 46, 49>>

\* "transfer-encoding"
TE_NAME ==
    <<116, 114, 97, 110, 115, 102, 101, 114, 45, 101, 110, 99, 111,
      100, 105, 110, 103>>

\* "chunked"
CHUNKED ==
    <<99, 104, 117, 110, 107, 101, 100>>

\* Line 104: parseInt(lines[0].split(' ')[1]) || 200.  A status line with
\* no second word gives parseInt(undefined), NaN.
ParseStatus(line) ==
    LET words == Split(line, <<SP>>)
        n == IF Len(words) >= 2 THEN ParseInt(words[2]) ELSE <<>>
    IN  IF IsNaN(n) \/ n[1] = 0 THEN 200 ELSE n[1]

\* Lines 105-108: a line with a colon sets the header named before the
\* first colon (trimmed, in lower case) to the trimmed text after it.
RECURSIVE ParseHeaders(_, _)
ParseHeaders(lines, h) ==
    IF lines = <<>> THEN h
    ELSE LET line == Head(lines)
             colon == IndexOf(line, COLON)
         IN  ParseHeaders(Tail(lines),
                 IF colon # -1
                 THEN HSet(h, ToLowerCase(Trim(Substring(line, 0, colon))),
                           Trim(SubstringFrom(line, colon + 1)))
                 ELSE h)

\* Lines 97-111, one turn of the loop after a read gave `value`: the new
\* leftover, and the head when its end was found.
HeadStep(left, value) ==
    LET merged == left \o value
        text == Utf8Decode(merged)
        headEnd == IndexOfSeq(text, CRLFCRLF)
    IN  IF headEnd = -1
        THEN [found |-> FALSE, leftover |-> merged,
              status |-> DefaultHead.status, headers |-> DefaultHead.headers]
        ELSE LET headText == Substring(text, 0, headEnd)
                 lines == Split(headText, CRLF)
                 headBytes == Utf8Encode(headText \o CRLFCRLF)
             IN  [found |-> TRUE,
                  leftover |-> SliceFrom(merged, Len(headBytes)),
                  status |-> ParseStatus(lines[1]),
                  headers |-> ParseHeaders(Tail(lines), EmptyHeaders)]

\* start(), 115-117: what the new body stream's controller is given.
StartEnqueues(left) == IF Len(left) > 0 THEN <<left>> ELSE <<>>

\* responseHeaders['transfer-encoding'] === 'chunked', 131.
IsChunked(h) == TE_NAME \in DOMAIN h /\ h[TE_NAME] = CHUNKED

\* The responses of the upstreams: a head, the boundary and a body; or the
\* first bytes of a head and its boundary, after which the connection
\* closes.
Heads == {HeadChunked, HeadLatin1, HeadUtf8, HeadBare}
Bodies == {<<>>, <<120, 121>>, <<120>> \o CRLFCRLF \o <<121>>}

WholeUpstreams ==
    {[head |-> h, body |-> b, complete |-> TRUE, wire |-> h \o CRLFCRLF \o b] :
        h \in Heads, b \in Bodies}

CutUpstreams ==
    UNION {{[head |-> h, body |-> <<>>, complete |-> FALSE,
             wire |-> SubSeq(h \o CRLFCRLF, 1, k)] : k \in 0..(Len(h) + 3)} :
           h \in Heads}

Upstreams == WholeUpstreams \cup CutUpstreams

InitSocket ==
    /\ DecoderInit(NoSource)
    /\ HandlerInit(NoRequest)
    /\ \E up \in Upstreams : SocketInit(up)
    /\ RewriteInit

\* 131-140 with the stream's construction, 114-129: the rest of socketFetch
\* once the loop is left, with `left` in leftover and `h` in responseHeaders.
SocketReturn(left, h) ==
    /\ bodyOut' = StartEnqueues(left)
    /\ attached' = IsChunked(h)
    /\ sHeaders' = IF IsChunked(h) THEN HDelete(h, TE_NAME) ELSE h
    /\ sPhase' = "body"

\* One turn of the loop at 94-112: the read reports the closure and the
\* loop is left; or it gives bytes, and the loop is left when they complete
\* the head.
HeadRead ==
    /\ sPhase = "head"
    /\ \/ /\ sockPos = Len(upstream.wire)
          /\ SocketReturn(leftover, sHeaders)
          /\ UNCHANGED <<sockPos, leftover, headLoaded, sStatus>>
       \/ \E n \in 1..(Len(upstream.wire) - sockPos) :
            \E r \in {HeadStep(leftover, SubSeq(upstream.wire, sockPos + 1, sockPos + n))} :
                /\ sockPos' = sockPos + n
                /\ leftover' = r.leftover
                /\ headLoaded' = r.found
                /\ IF r.found
                   THEN /\ sStatus' = r.status
                        /\ SocketReturn(r.leftover, r.headers)
                   ELSE UNCHANGED <<sStatus, sHeaders, attached, bodyOut, sPhase>>
    /\ UNCHANGED <<upstream, bodyClosed>>
    /\ UNCHANGED <<decoderVars, handlerVars, rewriteVars>>

\* pull(), 118-125.
BodyPull ==
    /\ sPhase = "body" /\ ~bodyClosed
    /\ \/ /\ sockPos = Len(upstream.wire)
          /\ bodyClosed' = TRUE
          /\ UNCHANGED <<sockPos, bodyOut>>
       \/ /\ \E n \in 1..(Len(upstream.wire) - sockPos) :
                /\ sockPos' = sockPos + n
                /\ bodyOut' = Append(bodyOut,
                                     SubSeq(upstream.wire, sockPos + 1, sockPos + n))
          /\ UNCHANGED bodyClosed
    /\ UNCHANGED <<upstream, sPhase, leftover, headLoaded, sStatus, sHeaders,
                   attached>>
    /\ UNCHANGED <<decoderVars, handlerVars, rewriteVars>>

NextSocket == HeadRead \/ BodyPull

SpecSocket == InitSocket /\ [][NextSocket]_vars

(***************************************************************************)
(* SpecRewrite: the playlist rewriter, 273-298.  A string is a sequence of *)
(* atoms: a reserved character, a white space character, or a word of      *)
(* characters encodeURIComponent leaves alone.  No word but "http" starts  *)
(* with "http", and "/", "#..." and "URI=" are atoms of their own, so the  *)
(* tests of the code on the first characters are tests on the first atom.  *)
(***************************************************************************)
MaxLines == 2       \* lines of a playlist

WhiteSpaceAtoms == {" ", "\r"}
QuoteAtoms == {"\"", "'"}

\* String.prototype.trim()
RECURSIVE TrimAtomsLeft(_)
TrimAtomsLeft(s) == IF s # <<>> /\ Head(s) \in WhiteSpaceAtoms
                    THEN TrimAtomsLeft(Tail(s)) ELSE s

RECURSIVE TrimAtomsRight(_)
TrimAtomsRight(s) == IF s # <<>> /\ s[Len(s)] \in WhiteSpaceAtoms
                     THEN TrimAtomsRight(SubSeq(s, 1, Len(s) - 1)) ELSE s

TrimAtoms(s) == TrimAtomsRight(TrimAtomsLeft(s))

\* String.prototype.lastIndexOf(c): the last 0-based index, or -1.
LastIndexOf(s, c) ==
    IF \E i \in 1..Len(s) : s[i] = c
    THEN (CHOOSE i \in 1..Len(s) : s[i] = c /\ \A j \in (i + 1)..Len(s) : s[j] # c) - 1
    ELSE -1

\* encodeURIComponent, atom by atom.
EncodeAtom(a) ==
    CASE a = ":" -> "%3A"
      [] a = "/" -> "%2F"
      [] a = "?" -> "%3F"
      [] a = "=" -> "%3D"
      [] a = "&" -> "%26"
      [] a = " " -> "%20"
      [] a = "\r" -> "%0D"
      [] OTHER -> a

EncodeURIComponent(s) == [i \in 1..Len(s) |-> EncodeAtom(s[i])]

\* new URL(u).origin for an http(s) URL in its normal form: the scheme and
\* the authority, that is all that comes before the first "/" or "?" after
\* the "//" (the host is the fifth atom of an http URL, the sixth of an
\* https one).
UrlOrigin(u) ==
    LET ends == {i \in 6..Len(u) : u[i] \in {"/", "?"}}
    IN  IF ends = {} THEN u
        ELSE SubSeq(u, 1, (CHOOSE i \in ends : \A j \in ends : i <= j) - 1)

\* line.startsWith('http'), line.startsWith('/'), line.startsWith('#')
StartsWithHttp(s) == s # <<>> /\ Head(s) = "http"
StartsWithSlash(s) == s # <<>> /\ Head(s) = "/"
TagHeads == {"#EXTINF:4,", "#EXT-X-KEY:METHOD=AES-128,", "#EXT-X-MAP:"}
StartsWithHash(s) == s # <<>> /\ Head(s) \in TagHeads

\* "https://proxy.example/"
WorkerUrl == <<"http", "s", ":", "/", "/", "proxy.example", "/">>

\* 273: url.substring(0, url.lastIndexOf('/') + 1)
BasePath(u) == SubSeq(u, 1, LastIndexOf(u, "/") + 1)

\* 276-286
ProxyLine(line, u, referer) ==
    LET fullUrl == IF ~StartsWithHttp(line)
                   THEN IF StartsWithSlash(line)
                        THEN UrlOrigin(u) \o line
                        ELSE BasePath(u) \o line
                   ELSE line
    IN  WorkerUrl \o <<"?url=">> \o EncodeURIComponent(fullUrl)
            \o <<"&referer=">> \o EncodeURIComponent(referer)

\* The first match of /URI=["']([^"']+)["']/ in s, as <<i, j>>, the places
\* of its two quotes; <<>> when there is none.
UriMatches(s) ==
    {m \in (1..Len(s)) \X (1..Len(s)) :
        /\ m[1] >= 2 /\ s[m[1] - 1] = "URI=" /\ s[m[1]] \in QuoteAtoms
        /\ m[2] >= m[1] + 2 /\ s[m[2]] \in QuoteAtoms
        /\ \A k \in (m[1] + 1)..(m[2] - 1) : s[k] \notin QuoteAtoms}

FirstUriMatch(s) ==
    IF UriMatches(s) = {} THEN <<>>
    ELSE CHOOSE m \in UriMatches(s) : \A o \in UriMatches(s) : m[1] <= o[1]

\* 289-297: the callback of lines.map.
RewriteLine(line, u, referer) ==
    LET trimmedLine == TrimAtoms(line)
        m == FirstUriMatch(trimmedLine)
    IN  IF trimmedLine = <<>> THEN line
        ELSE IF StartsWithHash(trimmedLine)
        THEN IF m = <<>> THEN trimmedLine
             ELSE SubSeq(trimmedLine, 1, m[1] - 1) \o <<"\"">>
                    \o ProxyLine(SubSeq(trimmedLine, m[1] + 1, m[2] - 1), u, referer)
                    \o <<"\"">> \o SubSeq(trimmedLine, m[2] + 1, Len(trimmedLine))
        ELSE ProxyLine(trimmedLine, u, referer)

\* The request URLs: ".../show/index.m3u8", ".../index.m3u8?token=a/b" and
\* one with a port.
RequestUrls ==
    {<<"http", "s", ":", "/", "/", "cdn.example", "/", "show", "/", "index.m3u8">>,
     <<"http", "s", ":", "/", "/", "cdn.example", "/", "index.m3u8", "?", "token",
       "=", "a", "/", "b">>,
     <<"http", ":", "/", "/", "cdn.example", ":", "2228", "/", "index.m3u8">>}

ActiveReferers == {<<"http", "s", ":", "/", "/", "megacloud.tv", "/">>}

\* The URIs of a playlist: absolute http(s), root-relative, relative (one
\* with a query and the CR of a CRLF line end, one whose name starts with
\* "http"), and absolute with another scheme.
PlaylistUris ==
    {<<"http", "s", ":", "/", "/", "other.example", "/", "a", "/", "1.ts">>,
     <<"/", "a", "/", "1.ts">>,
     <<"1.ts">>,
     <<"sub", "/", "2.ts", "?", "x", "=", "1", "\r">>,
     <<"http", "_1.ts">>,
     <<"skd", ":", "/", "/", "key1">>}

TagUris == {<<"key.bin">>, <<"/", "k", "/", "key.bin">>, <<"skd", ":", "/", "/", "key1">>}

PlaylistLines ==
    PlaylistUris
    \cup {<<>>, <<" ">>, <<"#EXTINF:4,">>}
    \cup {<<"#EXT-X-KEY:METHOD=AES-128,", "URI=", q>> \o t \o <<q>> :
            q \in QuoteAtoms, t \in TagUris}

Playlists == SeqsUpTo(PlaylistLines, MaxLines)

InitRewrite ==
    /\ DecoderInit(NoSource)
    /\ HandlerInit(NoRequest)
    /\ SocketInit(NoUpstream)
    /\ url \in RequestUrls
    /\ targetReferer \in ActiveReferers
    /\ manifestLines \in Playlists
    /\ newLines = <<>>

\* lines.map(...), 289-298, one line a step.
MapLine ==
    /\ Len(newLines) < Len(manifestLines)
    /\ newLines' = Append(newLines,
                          RewriteLine(manifestLines[Len(newLines) + 1], url,
                                      targetReferer))
    /\ UNCHANGED <<url, targetReferer, manifestLines>>
    /\ UNCHANGED <<decoderVars, handlerVars, socketVars>>

NextRewrite == MapLine

SpecRewrite == InitRewrite /\ [][NextRewrite]_vars

(***************************************************************************)
(* Claims about the decoder, under SpecDecoder.                            *)
(***************************************************************************)

\* C1: for every well-formed chunked stream and every way of splitting it
\* into transform calls, once the whole stream was given the concatenation
\* of everything emitted is the concatenation of the chunk payloads, and no
\* decode error was raised on the way.
C1_FragmentationInvariance ==
    kind = "wellformed" =>
        /\ ~errored
        /\ pos = Len(stream) => Concat(out) = payload

\* C2: a decoder in FOOTER stays in FOOTER and emits nothing, whatever bytes
\* a call supplies; and when a finished body and the chunk-like data after
\* it arrive in one call, only the body's payloads are emitted, the decoder
\* ends in FOOTER and no error is raised.
C2_FooterIsTerminal ==
    [][/\ state = "footer" => (state' = "footer" /\ out' = out /\ ~errored')
       /\ (kind = "junk" /\ pos = 0 /\ pos' = Len(stream)) =>
            (state' = "footer" /\ Concat(out') = payload /\ ~errored')]_vars

\* A finished body was decoded, its payloads emitted, and the chunk-like
\* data that follows it was supplied to the decoder in FOOTER.
C2_Witness ==
    /\ kind = "junk" /\ pos = Len(stream)
    /\ state = "footer" /\ out # <<>> /\ Concat(out) = payload

\* C3: a call that finds the decoder in SIZE with a first size line that
\* does not parse as a hexadecimal number signals the error and emits
\* nothing; when the payloads before such a line arrive in the same call
\* they are emitted and nothing after the line is; and nothing is emitted
\* once the error was signalled.
C3_BadSizeIsError ==
    [][LET merged == buffer \o SubSeq(stream, pos + 1, pos')
           lineEnd == IndexOf(merged, CR)
       IN  /\ ( /\ pos' > pos /\ state = "size" /\ lineEnd # -1
                /\ IsNaN(ParseInt16(Slice(merged, 0, lineEnd))) ) =>
                    (errored' /\ out' = out)
           /\ (kind = "badsize" /\ pos = 0 /\ pos' = Len(stream)) =>
                    (errored' /\ Concat(out') = payload)
           /\ errored => out' = out]_vars

\* Payloads were emitted, then the size line "zz" (or the empty one) raised
\* the error, and the chunk after it was not emitted.
C3_Witness ==
    /\ kind = "badsize" /\ pos = Len(stream)
    /\ errored /\ IsNaN(chunkSize)
    /\ out # <<>> /\ Concat(out) = payload

\* C13: a call that finds the decoder in DATA, its bytes starting with the
\* chunk's payload, and leaves it with fewer than chunkSize+2 bytes buffered
\* makes no progress: it emits nothing and the decoder stays in DATA.
C13_DataWaitsForPayloadAndCrlf ==
    [][LET merged == buffer \o SubSeq(stream, pos + 1, pos')
       IN  (kind = "wellformed" /\ state = "data" /\ pos' > pos
                /\ merged[1] \in PayloadBytes
                /\ Len(merged) < chunkSize[1] + 2) =>
            (state' = "data" /\ out' = out)]_vars

(***************************************************************************)
(* Claims about the handler, under Spec.                                   *)
(***************************************************************************)
IsOkStatus(status) == (status >= 200 /\ status < 300) \/ status = 206

\* C4: a request that is not OPTIONS and whose url parameter is missing or
\* empty never gets an upstream attempt, and is answered 400 with the body
\* "URL parameter is required".
C4_MissingUrlIs400 ==
    (req.method # "OPTIONS" /\ req.url.kind \in {"missing", "empty"}) =>
        /\ attempts = 0
        /\ pc \in {"start", "done"}
        /\ pc = "done" =>
            /\ returned.status = 400
            /\ returned.body = TextBody("URL parameter is required")

\* The empty url parameter was answered.
C4_Witness ==
    /\ req.method = "GET" /\ req.url.kind = "empty"
    /\ pc = "done" /\ returned.status = 400

\* C5: for every upstream status that is not in [200,300) and not 206, on
\* either transport, the response returned has the upstream's status and
\* the body "Upstream error <status>", and no read of the upstream body was
\* issued.
C5_UpstreamErrorKeepsStatus ==
    (returned # NotReturned /\ response # NoResponse
        /\ ~IsOkStatus(response.status)) =>
        /\ returned.status = response.status
        /\ returned.body = TextBody("Upstream error " \o ToString(response.status))
        /\ upReads = 0

\* C6 as stated: every response returned carries
\* Access-Control-Allow-Origin: * and the proxy-version header.
C6_EveryResponseHasBothHeaders ==
    returned # NotReturned =>
        /\ HGet(returned.headers, H_ACAO) = "*"
        /\ HGet(returned.headers, H_VERSION) = "1.2.1-no-origin"

\* C6 as amended: every response returned carries
\* Access-Control-Allow-Origin: *; the proxy-version header is carried by
\* the responses built from an upstream response (upstream-error, rewritten
\* playlist, streamed body) and by no other (OPTIONS 204, missing-url 400,
\* internal 500).
C6_CorsAlwaysVersionFromUpstream ==
    returned # NotReturned =>
        /\ HGet(returned.headers, H_ACAO) = "*"
        /\ returned.from \in {"upstreamError", "playlist", "stream"} =>
                HGet(returned.headers, H_VERSION) = "1.2.1-no-origin"
        /\ returned.from \in {"options", "missingUrl", "catch"} =>
                ~HHas(returned.headers, H_VERSION)

\* An internal 500 after the upstream answered: it has the CORS header and
\* no proxy-version header.
C6_Witness ==
    /\ returned.from = "catch" /\ response # NoResponse
    /\ HGet(returned.headers, H_ACAO) = "*"
    /\ ~HHas(returned.headers, H_VERSION)

\* C7: no response returned carries a content-security-policy or an
\* x-frame-options header.
C7_NoCspNoXfo ==
    returned # NotReturned =>
        /\ ~HHas(returned.headers, H_CSP)
        /\ ~HHas(returned.headers, H_XFO)

\* C8: for an upstream response that is no playlist, with status 206 or any
\* other status in [200,300), the response returned has the same status and
\* the upstream's Content-Range, and its body is the upstream body handed
\* on one pulled buffer at a time in upstream order: nothing is held back.
C8_OkStatusStreamsThrough ==
    (returned # NotReturned /\ response # NoResponse
        /\ IsOkStatus(response.status)
        /\ ~IsPlaylist(response.headers, req.url)) =>
        /\ returned.status = response.status
        /\ HHas(response.headers, H_CR) =>
                HGet(returned.headers, H_CR) = HGet(response.headers, H_CR)
        /\ returned.body.kind \in {"stream", "null"}
        /\ buffered = <<>>
        /\ delivered = [i \in 1..Len(delivered) |-> i]
        /\ upReads - Len(delivered) <= 1

\* C9: a request whose url parameter is present and malformed is answered
\* 400, with no upstream attempt made.
C9_MalformedUrlIs400 ==
    (req.method # "OPTIONS" /\ req.url.kind = "malformed" /\ pc = "done") =>
        /\ returned.status = 400
        /\ attempts = 0

\* C10: at most one upstream attempt is made for a request; and a failure
\* caught before a response was returned ends the request with status 500
\* and the JSON body {"error":"<message>"}.
C10_FailureIs500OneAttempt ==
    /\ attempts <= 1
    /\ thrown # "" =>
        /\ pc = "done"
        /\ returned.status = 500
        /\ returned.body = TextBody("{\"error\":\"" \o thrown \o "\"}")
        /\ HGet(returned.headers, H_CT) = "application/json"

\* A read failed while a playlist body was being buffered, after the one
\* upstream attempt, and the request ended 500.
C10_Witness ==
    /\ thrown = "Network connection lost." /\ buffered # <<>>
    /\ attempts = 1 /\ returned.status = 500

\* C11: on the raw-socket path, a cancel of the client-facing body stream,
\* with or without the decoder attached, cancels the socket's reader in the
\* same step, and no read of the socket is issued once it was cancelled.
C11_CancelReachesSocket ==
    [][/\ (clientBody = "open" /\ clientBody' = "cancelled"
              /\ response.body \in {"raw", "dechunked"}) =>
                 socket' = "cancelled"
       /\ socket = "cancelled" => upReads' = upReads]_vars

\* The consumer cancelled a de-chunked body after a buffer was delivered, and
\* the socket's reader is cancelled.
C11_Witness ==
    /\ clientBody = "cancelled" /\ response.body = "dechunked"
    /\ delivered # <<>> /\ socket = "cancelled"

\* C14: no terminal state of a request leaves an opened socket neither
\* drained nor cancelled (a lost connection counts as released).
C14_SocketReleasedAtEnd ==
    pc = "done" => socket \in {"none", "drained", "cancelled", "failed"}

IsPrefix(a, b) == Len(a) <= Len(b) /\ SubSeq(b, 1, Len(a)) = a

\* C18: nothing is delivered before the streamed response is returned; and
\* once it is returned, no step (a decode error, a lost connection, an early
\* close) changes the response or its status, or takes back a delivered
\* buffer.
C18_StatusCommitted ==
    [][/\ returned = NotReturned => delivered = <<>>
       /\ returned.from = "stream" =>
            (returned' = returned /\ IsPrefix(delivered, delivered'))]_vars

\* A de-chunked body raised the decode error after a buffer was delivered:
\* the client's stream is errored, the returned response is the streamed one.
C18_Witness ==
    /\ returned.from = "stream" /\ clientBody = "errored"
    /\ response.body = "dechunked" /\ socket = "cancelled"
    /\ delivered # <<>>

\* A Transfer-Encoding value that declares the chunked coding; the names of
\* transfer codings are case-insensitive.
DeclaresChunked(v) == v \in {"chunked", "Chunked"}

\* C16: the decoder is attached exactly when the parsed head's
\* transfer-encoding declares chunked, and then the header is removed: the
\* socket client's response never has a chunked body without the decoder, and
\* no returned response carries a transfer-encoding header declaring chunked.
C16_ChunkedNeverReachesClient ==
    /\ response.body = "dechunked" => ~HHas(response.headers, H_TE)
    /\ response.body = "raw" => ~DeclaresChunked(HGet(response.headers, H_TE))
    /\ ~DeclaresChunked(HGet(returned.headers, H_TE))

\* The upstream's body could not be read to its end.
BodyReadFailed == thrown \in {"Network connection lost.", "Invalid chunk size"}

\* C17: when the upstream answered with a status in 200..299 that allows a
\* body, and its body was readable, the response returned is the rewritten
\* playlist, with the upstream's status, exactly when the content type
\* matches mpegurl or the request URL ends in .m3u8; in every other case it
\* is the streamed body.
C17_PlaylistExactlyBySuffixOrType ==
    (returned # NotReturned /\ response.status \in (200..299) \ NullBodyStatuses
        /\ ~BodyReadFailed) =>
        IF TypeIncludesMpegurl(HGet(response.headers, H_CT))
              \/ req.url.m3u8 = "suffix"
        THEN returned.from = "playlist" /\ returned.status = response.status
        ELSE returned.from = "stream"

(***************************************************************************)
(* Claims about socketFetch, under SpecSocket.                             *)
(***************************************************************************)

\* C15: once the head's end was received, the buffers the body stream was
\* given are, in order and together, exactly the bytes received after the
\* first CRLFCRLF, and the stream is closed only when the upstream's bytes
\* are all read.
C15_BodyIsBytesAfterBoundary ==
    (upstream.complete /\ sPhase = "body") =>
        /\ Concat(bodyOut) =
              SubSeq(upstream.wire, Len(upstream.head) + 5, sockPos)
        /\ bodyClosed => sockPos = Len(upstream.wire)

\* C19: when the connection closed before the CRLFCRLF, socketFetch
\* returned with status 200, no header and no decoder.
C19_EarlyCloseIsDefaultHead ==
    (~upstream.complete /\ sPhase = "body") =>
        /\ ~headLoaded
        /\ sStatus = 200
        /\ sHeaders = EmptyHeaders
        /\ ~attached

\* The connection closed one byte before the end of the boundary, after a
\* status line with 404 and a Transfer-Encoding: chunked line were received.
C19_Witness ==
    /\ ~upstream.complete /\ sPhase = "body"
    /\ upstream.wire = HeadChunked \o CRLF \o <<CR>>
    /\ sockPos = Len(upstream.wire)

\* C20: no byte received before the head's end is given to the body stream;
\* when the connection closed before the end, nothing is.
C20_NoHeadByteInBody ==
    (~upstream.complete /\ sPhase = "body") => Concat(bodyOut) = <<>>

(***************************************************************************)
(* Claims about the playlist rewriter, under SpecRewrite.                  *)
(***************************************************************************)

\* decodeURIComponent, atom by atom.
DecodeAtom(a) ==
    CASE a = "%3A" -> ":"
      [] a = "%2F" -> "/"
      [] a = "%3F" -> "?"
      [] a = "%3D" -> "="
      [] a = "%26" -> "&"
      [] a = "%20" -> " "
      [] a = "%0D" -> "\r"
      [] OTHER -> a

DecodeURIComponent(s) == [i \in 1..Len(s) |-> DecodeAtom(s[i])]

\* A URI with a scheme: a ":" with no "/" or "?" before it.
IsAbsoluteUri(uri) ==
    /\ IndexOf(uri, ":") > 0
    /\ \A i \in 1..IndexOf(uri, ":") : uri[i] \notin {"/", "?"}

\* The request URL truncated after the last "/" of its path.
BaseDirectory(u) ==
    LET path == IF IndexOf(u, "?") = -1 THEN u ELSE SubSeq(u, 1, IndexOf(u, "?"))
    IN  SubSeq(u, 1, LastIndexOf(path, "/") + 1)

\* The resolution of a playlist's URI the claim states.
Resolved(uri, u) ==
    IF IsAbsoluteUri(uri) THEN uri
    ELSE IF Head(uri) = "/" THEN UrlOrigin(u) \o uri
    ELSE BaseDirectory(u) \o uri

\* The URI of a playlist line, if it has one: the trimmed line, or the first
\* quoted URI attribute of a tag.
UriOf(line) ==
    LET t == TrimAtoms(line)
    IN  IF t = <<>> THEN <<>>
        ELSE IF StartsWithHash(t)
        THEN IF FirstUriMatch(t) = <<>> THEN <<>>
             ELSE SubSeq(t, FirstUriMatch(t)[1] + 1, FirstUriMatch(t)[2] - 1)
        ELSE t

\* C12: every rewritten line that had a URI has in its place a proxied URL
\* of the form <WorkerUrl>?url=<x>&referer=<y>, where x decodes to the URI
\* resolved against the request URL and y to the active referer.
C12_ProxiedUrlCarriesResolvedUri ==
    \A i \in 1..Len(newLines) :
        LET uri == UriOf(manifestLines[i])
            proxied == UriOf(newLines[i])
            n == Len(WorkerUrl)
            r == IndexOf(proxied, "&referer=")
        IN  uri # <<>> =>
                /\ SubSeq(proxied, 1, n + 1) = WorkerUrl \o <<"?url=">>
                /\ r # -1
                /\ DecodeURIComponent(SubSeq(proxied, n + 2, r)) = Resolved(uri, url)
                /\ DecodeURIComponent(SubstringFrom(proxied, r + 1)) = targetReferer

====
